---- MODULE Spec2Model ----
(***************************************************************************)
(* A model of w6sketch (src/src/minhash.rs): the Candidate Index `LSH`,    *)
(* the Sketcher `SuperMinHasher` and the facade `SuperMinHasherLSH`.        *)
(*                                                                         *)
(* An f32 is modelled by its 32-bit pattern (sign bit clear, so below       *)
(* 2^31), an f64 similarity or threshold by an exact fraction or NaN.       *)
(* Corpus positions are 0-based as in the code; TLA+ sequences are 1-based, *)
(* so position p is element p + 1.                                          *)
(***************************************************************************)
EXTENDS Integers, Sequences, FiniteSets, TLC

VARIABLES lsh, hasher, facade, ret, caller

vars == <<lsh, hasher, facade, ret, caller>>

---------------------------------------------------------------------------
(* Bounds and input sets *)

\* The corpus is capped at MaxDocs records (the code has no cap).
MaxDocs == 2

\* Lengths of the signatures handed to the Candidate Index.
SigLens == {0, 1, 2}

\* f32 inputs, as bit patterns: 0.0 (0x00000000) and 1.0 (0x3F800000).
F32Vals == {0, 1065353216}

Ids == {"a", "b"}

\* Texts handed to the Sketcher and the facade, as code points: "", "ab",
\* "Ab", "a, b", and fullwidth "a" followed by U+570B.
Texts == {<<>>, <<97, 98>>, <<65, 98>>, <<97, 44, 32, 98>>, <<65345, 22283>>}

\* The standalone Sketcher is also handed "a b", "aba" and "ba".
SketcherTexts == Texts \cup {<<97, 32, 98>>, <<97, 98, 97>>, <<98, 97>>}

\* Constructor arguments of the Sketcher and the facade: every stage on with
\* bigrams, every stage off with unigrams, and the defaults (n_gram = 5).
Configs ==
    {[size |-> 2, n_gram |-> 2, lowercase |-> TRUE, unicode_normalize |-> TRUE,
      zh_conv |-> TRUE, punct_norm |-> TRUE],
     [size |-> 3, n_gram |-> 1, lowercase |-> FALSE, unicode_normalize |-> FALSE,
      zh_conv |-> FALSE, punct_norm |-> FALSE],
     [size |-> 4, n_gram |-> 5, lowercase |-> TRUE, unicode_normalize |-> TRUE,
      zh_conv |-> TRUE, punct_norm |-> TRUE]}

Signatures == UNION {[1..n -> F32Vals] : n \in SigLens}

---------------------------------------------------------------------------
(* f64 arithmetic of similarity_threshold and of the threshold test *)

RECURSIVE GCD(_, _)
GCD(a, b) == IF b = 0 THEN a ELSE GCD(b, a % b)

NaN == [nan |-> TRUE, num |-> 0, den |-> 1]

\* An f64 as the exact fraction n / d in lowest terms, d > 0.
Frac(n, d) == [nan |-> FALSE, num |-> n \div GCD(n, d), den |-> d \div GCD(n, d)]

\* `count as f64 / a.len() as f64`: 0.0 / 0.0 is NaN.
F64Div(count, len) == IF len = 0 THEN NaN ELSE Frac(count, len)

\* Mutant of F64Ge: `similarity > threshold`.
F64Gt(x, y) == ~x.nan /\ ~y.nan /\ x.num * y.den > y.num * x.den

\* `similarity >= threshold`: false as soon as either side is NaN.
F64Ge(x, y) == ~x.nan /\ ~y.nan /\ x.num * y.den >= y.num * x.den

One == Frac(1, 1)

\* Thresholds handed to check: 0, the default 0.5, the value just above it,
\* 1, and NaN.
Thresholds == {Frac(0, 1), Frac(1, 2), Frac(501, 1000), Frac(1, 1), NaN}

---------------------------------------------------------------------------
(* The Candidate Index: struct LSH *)

\* f32::to_le_bytes: the four bytes of the bit pattern, least significant first.
to_le_bytes(x) ==
    <<x % 256, (x \div 256) % 256, (x \div 65536) % 256, (x \div 16777216) % 256>>

\* Mutant of from_le_bytes: the bytes are read most significant first.
from_be_bytes(y) == 16777216 * y[1] + 65536 * y[2] + 256 * y[3] + y[4]

\* f32::from_le_bytes of the first four bytes.
from_le_bytes(y) == y[1] + 256 * y[2] + 65536 * y[3] + 16777216 * y[4]

\* data.iter().map(to_le_bytes).collect()
data_bytes(data) == [i \in 1..Len(data) |-> to_le_bytes(data[i])]

\* similarity_threshold(a, b): b[i] is read for every i < a.len(), so the
\* call panics (index out of bounds) exactly when b is shorter than a.
similarity_threshold(a, b) ==
    IF Len(b) < Len(a)
    THEN [panicked |-> TRUE, value |-> NaN]
    ELSE [panicked |-> FALSE,
          value |-> F64Div(Cardinality({i \in 1..Len(a) : a[i] = b[i]}), Len(a))]

\* Mutant of LSH_new: the index starts with one record, ("a", [0.0]).
LSH_new_seeded ==
    [candidates |-> (to_le_bytes(0) :> {0}), hashes |-> <<<<to_le_bytes(0)>>>>,
     ids |-> <<"a">>, id_map |-> ("a" :> 0)]

LSH_new == [candidates |-> <<>>, hashes |-> <<>>, ids |-> <<>>, id_map |-> <<>>]

keys(self) == self.ids

values(self) ==
    [p \in 1..Len(self.hashes) |->
        [i \in 1..Len(self.hashes[p]) |-> from_le_bytes(self.hashes[p][i])]]

length(self) == Len(self.ids)

\* Mutant of bucket_union: only the bucket of the first slot value is read.
bucket_first_slot_only(self, db) ==
    IF db # <<>> /\ db[1] \in DOMAIN self.candidates THEN self.candidates[db[1]] ELSE {}

\* The union of the buckets of the query's slot values.
bucket_union(self, db) ==
    UNION {IF db[i] \in DOMAIN self.candidates THEN self.candidates[db[i]] ELSE {} :
           i \in 1..Len(db)}

\* check(&self, data, threshold): the set of outcomes it can have.  The
\* candidates are visited in the iteration order of a hash set; when two
\* returned records carry the same id the later one overwrites the earlier,
\* so each id maps to the similarity of any one of its returned records.
check(self, data, threshold) ==
    LET db == data_bytes(data)
        cands == {i \in bucket_union(self, db) : i < Len(self.hashes)}
        sim(i) == similarity_threshold(db, self.hashes[i + 1])
        hits == {i \in cands : F64Ge(sim(i).value, threshold) /\ i < Len(self.ids)}
        names == {self.ids[i + 1] : i \in hits}
        sims == {sim(i).value : i \in hits}
    IN  IF \E i \in cands : sim(i).panicked
        THEN {[panicked |-> TRUE, map |-> <<>>]}
        ELSE {[panicked |-> FALSE, map |-> m] :
                m \in {f \in [names -> sims] :
                         \A id \in names :
                            \E i \in hits : self.ids[i + 1] = id /\ f[id] = sim(i).value}}

Put(f, k, v) == [x \in DOMAIN f \cup {k} |-> IF x = k THEN v ELSE f[x]]

\* Mutant of insert: only the first slot value is registered in the bucket index.
insert_first_slot_only(self, new_id, db) ==
    LET len_id == Len(self.ids)
        slots == IF db = <<>> THEN {} ELSE {db[1]}
    IN  [candidates |->
            [b \in DOMAIN self.candidates \cup slots |->
                (IF b \in DOMAIN self.candidates THEN self.candidates[b] ELSE {})
                \cup (IF b \in slots THEN {len_id} ELSE {})],
         hashes |-> Append(self.hashes, db),
         ids |-> Append(self.ids, new_id),
         id_map |-> Put(self.id_map, new_id, len_id)]

\* Mutant of insert: the signature is not pushed.
insert_signature_not_pushed(self, new_id, db) ==
    LET len_id == Len(self.ids)
        slots == {db[i] : i \in 1..Len(db)}
    IN  [candidates |->
            [b \in DOMAIN self.candidates \cup slots |->
                (IF b \in DOMAIN self.candidates THEN self.candidates[b] ELSE {})
                \cup (IF b \in slots THEN {len_id} ELSE {})],
         hashes |-> self.hashes,
         ids |-> Append(self.ids, new_id),
         id_map |-> Put(self.id_map, new_id, len_id)]

\* Mutant of insert: the last slot value is not registered.
insert_last_slot_skipped(self, new_id, db) ==
    LET len_id == Len(self.ids)
        slots == {db[i] : i \in 1..(Len(db) - 1)}
    IN  [candidates |->
            [b \in DOMAIN self.candidates \cup slots |->
                (IF b \in DOMAIN self.candidates THEN self.candidates[b] ELSE {})
                \cup (IF b \in slots THEN {len_id} ELSE {})],
         hashes |-> Append(self.hashes, db),
         ids |-> Append(self.ids, new_id),
         id_map |-> Put(self.id_map, new_id, len_id)]

\* Mutant of insert: the bucket of each slot value is replaced by the new
\* position alone.
insert_replace_bucket(self, new_id, db) ==
    LET len_id == Len(self.ids)
        slots == {db[i] : i \in 1..Len(db)}
    IN  [candidates |->
            [b \in DOMAIN self.candidates \cup slots |->
                IF b \in slots THEN {len_id} ELSE self.candidates[b]],
         hashes |-> Append(self.hashes, db),
         ids |-> Append(self.ids, new_id),
         id_map |-> Put(self.id_map, new_id, len_id)]

\* Mutant of insert: the position is read after the id is pushed.
insert_off_by_one(self, new_id, db) ==
    LET len_id == Len(self.ids) + 1
        slots == {db[i] : i \in 1..Len(db)}
    IN  [candidates |->
            [b \in DOMAIN self.candidates \cup slots |->
                (IF b \in DOMAIN self.candidates THEN self.candidates[b] ELSE {})
                \cup (IF b \in slots THEN {len_id} ELSE {})],
         hashes |-> Append(self.hashes, db),
         ids |-> Append(self.ids, new_id),
         id_map |-> Put(self.id_map, new_id, len_id)]

\* The insert of check_and_add (lines 121-130).
insert(self, new_id, db) ==
    LET len_id == Len(self.ids)
        slots == {db[i] : i \in 1..Len(db)}
    IN  [candidates |->
            [b \in DOMAIN self.candidates \cup slots |->
                (IF b \in DOMAIN self.candidates THEN self.candidates[b] ELSE {})
                \cup (IF b \in slots THEN {len_id} ELSE {})],
         hashes |-> Append(self.hashes, db),
         ids |-> Append(self.ids, new_id),
         id_map |-> Put(self.id_map, new_id, len_id)]

\* Mutant of check_and_add: a forced insert is made before the check.
check_and_add_insert_first(self, new_id, data, threshold, add_if_dup) ==
    {[self |-> IF ~result.panicked /\ (DOMAIN result.map = {} \/ add_if_dup)
               THEN insert(self, new_id, data_bytes(data))
               ELSE self,
      panicked |-> result.panicked,
      map |-> result.map] :
        result \in check(IF add_if_dup THEN insert(self, new_id, data_bytes(data)) ELSE self,
                         data, threshold)}

\* Mutant of check_and_add: the record is inserted whatever the check returns.
check_and_add_always(self, new_id, data, threshold, add_if_dup) ==
    {[self |-> IF ~result.panicked THEN insert(self, new_id, data_bytes(data)) ELSE self,
      panicked |-> result.panicked,
      map |-> result.map] : result \in check(self, data, threshold)}

\* check_and_add(&mut self, new_id, data, threshold, add_if_dup): the set of
\* outcomes, each the index after the call and what the call returns.  A panic
\* inside check unwinds before anything is written.
check_and_add(self, new_id, data, threshold, add_if_dup) ==
    {[self |-> IF ~result.panicked /\ (DOMAIN result.map = {} \/ add_if_dup)
               THEN insert(self, new_id, data_bytes(data))
               ELSE self,
      panicked |-> result.panicked,
      map |-> result.map] : result \in check(self, data, threshold)}

---------------------------------------------------------------------------
(* The signature accumulator: SuperMinHash<f32, Vec<char>, FnvHasher> of the
   probminhash crate, which is not part of the repository's sources.  It is
   modelled from section 4.2 of the specification as a per-slot minimum:
   every inserted element has one deterministic value per slot and each slot
   keeps the smallest value seen, so the sketch depends only on the set of
   elements inserted since the last reinit.  The values are bit patterns of
   non-negative f32, whose order is the order of the floats. *)

\* u32::MAX as f32, 4294967296.0 (0x4F800000): the value of an untouched slot.
Large == 1333788672

\* The slot values an element can draw: 0.125, 0.25, 0.375, 0.5, 0.625,
\* 0.75, 0.875 and 1.5.
SlotTable ==
    <<1040187392, 1048576000, 1052770304, 1056964608,
      1059061760, 1061158912, 1063256064, 1069547520>>

RECURSIVE ElementHash(_)
ElementHash(element) ==
    IF element = <<>> THEN 7
    ELSE (31 * ElementHash(SubSeq(element, 1, Len(element) - 1))
          + element[Len(element)]) % 1009

SlotDraw(element, j) ==
    SlotTable[((ElementHash(element) \div (j * j)) % Len(SlotTable)) + 1]

Min(a, b) == IF a < b THEN a ELSE b

SuperMinHash_new(size) == [hsketch |-> [j \in 1..size |-> Large]]

SuperMinHash_sketch(minhash, element) ==
    [hsketch |-> [j \in 1..Len(minhash.hsketch) |->
                    Min(minhash.hsketch[j], SlotDraw(element, j))]]

get_hsketch(minhash) == minhash.hsketch

reinit(minhash) == [hsketch |-> [j \in 1..Len(minhash.hsketch) |-> Large]]

---------------------------------------------------------------------------
(* The Sketcher: struct SuperMinHasher.  A text is a sequence of code points. *)

\* ICU NFKC on the code points used here: fullwidth 'a' (U+FF41) and
\* fullwidth ',' (U+FF0C) fold to their ASCII forms.
nfkc_char(c) == IF c = 65345 THEN 97 ELSE IF c = 65292 THEN 44 ELSE c

unicode_normalize(s) == [i \in 1..Len(s) |-> nfkc_char(s[i])]

\* [\s\p{Punctuation}]: space, ',' and fullwidth ','.
IsSpaceOrPunct(c) == c \in {32, 44, 65292}

\* SP_PUNCT_RE.replace_all(s, " "): every maximal run becomes one space.
RECURSIVE punct_norm(_)
punct_norm(s) ==
    IF s = <<>> THEN <<>>
    ELSE IF IsSpaceOrPunct(s[1])
         THEN IF Len(s) >= 2 /\ IsSpaceOrPunct(s[2])
              THEN punct_norm(Tail(s))
              ELSE <<32>> \o punct_norm(Tail(s))
         ELSE <<s[1]>> \o punct_norm(Tail(s))

\* ZH_TO_HANS_CONVERTER on the code points used here: U+570B becomes U+56FD.
zh_conv(s) == [i \in 1..Len(s) |-> IF s[i] = 22283 THEN 22269 ELSE s[i]]

\* str::to_lowercase on the code points used here (ASCII letters).
to_lowercase(s) ==
    [i \in 1..Len(s) |-> IF s[i] >= 65 /\ s[i] <= 90 THEN s[i] + 32 ELSE s[i]]

\* Lines 187-199: the four stages in their fixed order, then s.chars().
preprocess(self, s) ==
    LET s1 == IF self.unicode_normalize THEN unicode_normalize(s) ELSE s
        s2 == IF self.punct_norm THEN punct_norm(s1) ELSE s1
        s3 == IF self.zh_conv THEN zh_conv(s2) ELSE s2
    IN  IF self.lowercase THEN to_lowercase(s3) ELSE s3

\* The loop of lines 204-208 from window i (0-based) on.
RECURSIVE sketch_windows(_, _, _, _)
sketch_windows(minhash, cs, n_gram, i) ==
    IF i >= Len(cs) - n_gram + 1 THEN minhash
    ELSE sketch_windows(SuperMinHash_sketch(minhash, SubSeq(cs, i + 1, i + n_gram)),
                        cs, n_gram, i + 1)

\* Mutant of SuperMinHasher::new: n_gram is not validated.
SuperMinHasher_new_unchecked_n_gram(size, n_gram, lowercase, unicode_normalize_, zh_conv_, punct_norm_) ==
    IF size = 0 THEN [ok |-> FALSE, err |-> "size must be greater than 0"]
    ELSE [ok |-> TRUE,
          value |-> [minhash |-> SuperMinHash_new(size),
                     n_gram |-> n_gram,
                     lowercase |-> lowercase,
                     unicode_normalize |-> unicode_normalize_,
                     zh_conv |-> zh_conv_,
                     punct_norm |-> punct_norm_]]

\* The arguments of the self.minhash.sketch calls of the loop of lines
\* 204-208 from window i (0-based) on, in call order: `current` is cleared
\* and refilled with cs[i..i + n_gram] before each call.
RECURSIVE window_calls(_, _, _)
window_calls(cs, n_gram, i) ==
    IF i >= Len(cs) - n_gram + 1 THEN <<>>
    ELSE <<SubSeq(cs, i + 1, i + n_gram)>> \o window_calls(cs, n_gram, i + 1)

\* The arguments of the self.minhash.sketch calls made by sketch(s), in call
\* order (lines 199-209).
sketch_calls(self, s) ==
    LET cs == preprocess(self, s)
    IN  IF Len(cs) < self.n_gram THEN <<cs>> ELSE window_calls(cs, self.n_gram, 0)

\* SuperMinHasher::new: Err when size or n_gram is zero.
SuperMinHasher_new(size, n_gram, lowercase, unicode_normalize_, zh_conv_, punct_norm_) ==
    IF size = 0 THEN [ok |-> FALSE, err |-> "size must be greater than 0"]
    ELSE IF n_gram = 0 THEN [ok |-> FALSE, err |-> "n_gram must be greater than 0"]
    ELSE [ok |-> TRUE,
          value |-> [minhash |-> SuperMinHash_new(size),
                     n_gram |-> n_gram,
                     lowercase |-> lowercase,
                     unicode_normalize |-> unicode_normalize_,
                     zh_conv |-> zh_conv_,
                     punct_norm |-> punct_norm_]]

\* Mutant of sketch: the loop stops one window early.
sketch_one_window_short(self, s) ==
    LET cs == preprocess(self, s)
    IN  [self EXCEPT !.minhash =
            IF Len(cs) < self.n_gram
            THEN SuperMinHash_sketch(self.minhash, cs)
            ELSE sketch_windows(self.minhash, SubSeq(cs, 1, Len(cs) - 1), self.n_gram, 0)]

\* sketch(&mut self, s): the Sketcher after the call.
sketch(self, s) ==
    LET cs == preprocess(self, s)
    IN  [self EXCEPT !.minhash =
            IF Len(cs) < self.n_gram
            THEN SuperMinHash_sketch(self.minhash, cs)
            ELSE sketch_windows(self.minhash, cs, self.n_gram, 0)]

\* Mutant of finalize: the sketch is read and the accumulator is not reset.
finalize_no_reinit(self) == [self |-> self, out |-> get_hsketch(self.minhash)]

\* finalize(&mut self): the signature, and the Sketcher after the call.
finalize(self) ==
    [self |-> [self EXCEPT !.minhash = reinit(self.minhash)],
     out |-> get_hsketch(self.minhash)]

sketch_and_finalize(self, s) == finalize(sketch(self, s))

---------------------------------------------------------------------------
(* The facade: struct SuperMinHasherLSH *)

SuperMinHasherLSH_new(size, n_gram, lowercase, unicode_normalize_, zh_conv_, punct_norm_) ==
    LET minhasher == SuperMinHasher_new(size, n_gram, lowercase, unicode_normalize_,
                                        zh_conv_, punct_norm_)
    IN  IF ~minhasher.ok THEN minhasher
        ELSE [ok |-> TRUE, value |-> [lsh |-> LSH_new, minhasher |-> minhasher.value]]

\* Mutant of the facade's check_and_add: the index is written whatever add is.
Facade_check_and_add_add_ignored(self, new_id, data, threshold, add, add_if_dup) ==
    LET finalized == finalize(sketch(self.minhasher, data))
        done == [finalized.self EXCEPT !.minhash = reinit(finalized.self.minhash)]
    IN  {[self |-> [lsh |-> o.self,
                    minhasher |-> IF o.panicked THEN finalized.self ELSE done],
          panicked |-> o.panicked,
          map |-> o.map] :
            o \in check_and_add(self.lsh, new_id, finalized.out, threshold, add_if_dup)}

\* Mutant of the facade's check_and_add: the sketch is read without finalize
\* and the accumulator is never reset.
Facade_check_and_add_no_reset(self, new_id, data, threshold, add, add_if_dup) ==
    LET sketched == sketch(self.minhasher, data)
        signature == get_hsketch(sketched.minhash)
    IN  IF add
        THEN {[self |-> [lsh |-> o.self, minhasher |-> sketched],
               panicked |-> o.panicked,
               map |-> o.map] :
                o \in check_and_add(self.lsh, new_id, signature, threshold, add_if_dup)}
        ELSE {[self |-> [lsh |-> self.lsh, minhasher |-> sketched],
               panicked |-> o.panicked,
               map |-> o.map] :
                o \in check(self.lsh, signature, threshold)}

\* SuperMinHasherLSH::check_and_add: the set of outcomes.  The argument
\* self.minhasher.finalize() is evaluated before the index is called; the
\* reinit of line 277 runs only when the index call returns.
Facade_check_and_add(self, new_id, data, threshold, add, add_if_dup) ==
    LET sketched == sketch(self.minhasher, data)
        finalized == finalize(sketched)
        done == [finalized.self EXCEPT !.minhash = reinit(finalized.self.minhash)]
    IN  IF add
        THEN {[self |-> [lsh |-> o.self,
                         minhasher |-> IF o.panicked THEN finalized.self ELSE done],
               panicked |-> o.panicked,
               map |-> o.map] :
                o \in check_and_add(self.lsh, new_id, finalized.out, threshold, add_if_dup)}
        ELSE {[self |-> [lsh |-> self.lsh,
                         minhasher |-> IF o.panicked THEN finalized.self ELSE done],
               panicked |-> o.panicked,
               map |-> o.map] :
                o \in check(self.lsh, finalized.out, threshold)}

Facade_keys(self) == keys(self.lsh)

Facade_values(self) == values(self.lsh)

Facade_length(self) == length(self.lsh)

---------------------------------------------------------------------------
(* Specification of a standalone Candidate Index *)

Unused == [op |-> "none"]

\* The caller's discipline: none, unless a specification fixes one.
Unconstrained == [fixed |-> FALSE]

Returned(op, panicked, out) == [op |-> op, panicked |-> panicked, out |-> out]

\* What a call that returns Err(PyValueError) hands to the caller.
Failed(op, err) == [op |-> op, panicked |-> FALSE, out |-> <<>>, err |-> err]

Init ==
    /\ lsh = LSH_new
    /\ hasher = Unused
    /\ facade = Unused
    /\ ret = Returned("new", FALSE, <<>>)
    /\ caller = Unconstrained

Check(data, threshold) ==
    /\ \E o \in check(lsh, data, threshold) :
          ret' = Returned("check", o.panicked, o.map)
    /\ UNCHANGED <<lsh, hasher, facade, caller>>

CheckAndAdd(new_id, data, threshold, add_if_dup) ==
    /\ \E o \in check_and_add(lsh, new_id, data, threshold, add_if_dup) :
          /\ length(o.self) <= MaxDocs
          /\ lsh' = o.self
          /\ ret' = Returned("check_and_add", o.panicked, o.map)
    /\ UNCHANGED <<hasher, facade, caller>>

Keys ==
    /\ ret' = Returned("keys", FALSE, keys(lsh))
    /\ UNCHANGED <<lsh, hasher, facade, caller>>

Values ==
    /\ ret' = Returned("values", FALSE, values(lsh))
    /\ UNCHANGED <<lsh, hasher, facade, caller>>

Length ==
    /\ ret' = Returned("length", FALSE, length(lsh))
    /\ UNCHANGED <<lsh, hasher, facade, caller>>

Next ==
    \/ \E data \in Signatures, threshold \in Thresholds : Check(data, threshold)
    \/ \E new_id \in Ids, data \in Signatures, threshold \in Thresholds,
          add_if_dup \in BOOLEAN : CheckAndAdd(new_id, data, threshold, add_if_dup)
    \/ Keys
    \/ Values
    \/ Length

Spec == Init /\ [][Next]_vars

---------------------------------------------------------------------------
(* Specification of a standalone Sketcher *)

NewSketcher(c) ==
    SuperMinHasher_new(c.size, c.n_gram, c.lowercase, c.unicode_normalize,
                       c.zh_conv, c.punct_norm).value

NewFacade(c) ==
    SuperMinHasherLSH_new(c.size, c.n_gram, c.lowercase, c.unicode_normalize,
                          c.zh_conv, c.punct_norm).value

InitSketcher ==
    /\ lsh = LSH_new
    /\ \E c \in Configs : hasher = NewSketcher(c)
    /\ facade = Unused
    /\ ret = Returned("new", FALSE, <<>>)
    /\ caller = Unconstrained

Sketch(s) ==
    /\ hasher' = sketch(hasher, s)
    /\ ret' = Returned("sketch", FALSE, <<>>)
    /\ UNCHANGED <<lsh, facade, caller>>

Finalize ==
    /\ hasher' = finalize(hasher).self
    /\ ret' = Returned("finalize", FALSE, finalize(hasher).out)
    /\ UNCHANGED <<lsh, facade, caller>>

SketchAndFinalize(s) ==
    /\ hasher' = sketch_and_finalize(hasher, s).self
    /\ ret' = Returned("sketch_and_finalize", FALSE, sketch_and_finalize(hasher, s).out)
    /\ UNCHANGED <<lsh, facade, caller>>

NextSketcher ==
    \/ \E s \in SketcherTexts : Sketch(s)
    \/ Finalize
    \/ \E s \in SketcherTexts : SketchAndFinalize(s)

SpecSketcher == InitSketcher /\ [][NextSketcher]_vars

---------------------------------------------------------------------------
(* Specification of the facade, with a standalone Sketcher (hasher) and a
   standalone Candidate Index (lsh) of the same configuration run side by
   side: every facade call is also made on the standalone pair. *)

\* Thresholds handed to the facade: the default 0.5, and 1.
FacadeThresholds == {Frac(1, 2), Frac(1, 1)}

\* Constructor arguments of the facade: the configurations with bigrams and
\* with unigrams.
FacadeConfigs == {c \in Configs : c.n_gram <= 2}

InitFacade ==
    /\ \E c \in FacadeConfigs : facade = NewFacade(c) /\ hasher = NewSketcher(c)
    /\ lsh = LSH_new
    /\ ret = Returned("new", FALSE, <<>>)
    /\ caller = Unconstrained

\* Constructor arguments a caller may pass: the valid ones, and the same with
\* size, n_gram or both zero.
ConstructorArgs ==
    UNION {{c, [c EXCEPT !.size = 0], [c EXCEPT !.n_gram = 0],
            [c EXCEPT !.size = 0, !.n_gram = 0]} : c \in FacadeConfigs}

\* The caller constructs a facade, a Sketcher and a Candidate Index again,
\* before the first use of the ones it has.  On Err nothing is constructed
\* and the caller keeps the objects it had.
FacadeNew(c) ==
    ret.op = "new" /\
    LET f == SuperMinHasherLSH_new(c.size, c.n_gram, c.lowercase, c.unicode_normalize,
                                   c.zh_conv, c.punct_norm)
        h == SuperMinHasher_new(c.size, c.n_gram, c.lowercase, c.unicode_normalize,
                                c.zh_conv, c.punct_norm)
    IN  IF f.ok /\ h.ok
        THEN /\ facade' = f.value
             /\ hasher' = h.value
             /\ lsh' = LSH_new
             /\ ret' = Returned("new", FALSE, <<>>)
             /\ UNCHANGED caller
        ELSE /\ ret' = Failed("new", IF f.ok THEN h.err ELSE f.err)
             /\ UNCHANGED <<lsh, hasher, facade, caller>>

\* What the standalone pair does for one facade call: sketch_and_finalize,
\* then check_and_add when add is true and check when it is false.
Standalone(sketcher, index, new_id, data, threshold, add, add_if_dup) ==
    LET sf == sketch_and_finalize(sketcher, data)
    IN  IF add
        THEN {[hasher |-> sf.self, lsh |-> o.self, panicked |-> o.panicked, map |-> o.map] :
                o \in check_and_add(index, new_id, sf.out, threshold, add_if_dup)}
        ELSE {[hasher |-> sf.self, lsh |-> index, panicked |-> o.panicked, map |-> o.map] :
                o \in check(index, sf.out, threshold)}

FacadeCheckAndAdd(new_id, data, threshold, add, add_if_dup) ==
    \E f \in Facade_check_and_add(facade, new_id, data, threshold, add, add_if_dup) :
       \E s \in Standalone(hasher, lsh, new_id, data, threshold, add, add_if_dup) :
          /\ Facade_length(f.self) <= MaxDocs
          /\ s.panicked = f.panicked /\ s.map = f.map
          /\ facade' = f.self
          /\ hasher' = s.hasher
          /\ lsh' = s.lsh
          /\ ret' = Returned("check_and_add", f.panicked, f.map)
          /\ UNCHANGED caller

FacadeKeys ==
    /\ ret' = Returned("keys", FALSE, Facade_keys(facade))
    /\ UNCHANGED <<lsh, hasher, facade, caller>>

FacadeValues ==
    /\ ret' = Returned("values", FALSE, Facade_values(facade))
    /\ UNCHANGED <<lsh, hasher, facade, caller>>

FacadeLength ==
    /\ ret' = Returned("length", FALSE, Facade_length(facade))
    /\ UNCHANGED <<lsh, hasher, facade, caller>>

NextFacade ==
    \/ \E c \in ConstructorArgs : FacadeNew(c)
    \/ \E new_id \in Ids, data \in Texts, threshold \in FacadeThresholds,
          add \in BOOLEAN, add_if_dup \in BOOLEAN :
          FacadeCheckAndAdd(new_id, data, threshold, add, add_if_dup)
    \/ FacadeKeys
    \/ FacadeValues
    \/ FacadeLength

SpecFacade == InitFacade /\ [][NextFacade]_vars

---------------------------------------------------------------------------
(* Claims about the Candidate Index, checked under Spec *)

SlotValues(sig) == {sig[i] : i \in 1..Len(sig)}

\* t / k >= threshold over the rationals; no fraction is >= NaN.
AtLeast(t, k, threshold) == ~threshold.nan /\ t * threshold.den >= threshold.num * k

\* The number of positions at which two signatures of one length agree.
Agree(stored, query) == Cardinality({i \in 1..Len(query) : stored[i] = query[i]})

\* Every stored signature has length k.
UniformLen(self, k) == \A p \in 1..Len(self.hashes) : Len(self.hashes[p]) = k

DistinctIds(self) ==
    \A p, q \in 1..Len(self.ids) : self.ids[p] = self.ids[q] => p = q

\* The records the specification of check selects, read through keys() and
\* values(): those sharing a slot value with the query at any position and
\* agreeing with it in at least threshold * k positions.
Selected(self, query, threshold) ==
    {p \in 1..length(self) :
        /\ SlotValues(values(self)[p]) \cap SlotValues(query) # {}
        /\ AtLeast(Agree(values(self)[p], query), Len(query), threshold)}

ExpectedMap(self, query, threshold) ==
    LET sel == Selected(self, query, threshold)
    IN  [id \in {keys(self)[p] : p \in sel} |->
            LET p == CHOOSE q \in sel : keys(self)[q] = id
            IN  Frac(Agree(values(self)[p], query), Len(query))]

\* C1: in every reachable state with distinct ids, for every query of the
\* length k >= 1 of the stored signatures, check returns exactly the map from
\* the ids of the records that share a slot value with the query and agree
\* with it in a fraction >= threshold of the positions, to that fraction.
C1_CheckReturnsSelected ==
    \A query \in Signatures, threshold \in Thresholds :
        (Len(query) >= 1 /\ UniformLen(lsh, Len(query)) /\ DistinctIds(lsh))
        => check(lsh, query, threshold)
             = {[panicked |-> FALSE, map |-> ExpectedMap(lsh, query, threshold)]}

\* A check on two records of length 2 returned one of them, with a
\* similarity below 1.
C1_Witness ==
    /\ ret.op = "check" /\ ~ret.panicked
    /\ length(lsh) = 2 /\ UniformLen(lsh, 2) /\ DistinctIds(lsh)
    /\ Cardinality(DOMAIN ret.out) = 1
    /\ \E id \in DOMAIN ret.out : ret.out[id] = Frac(1, 2)

\* C2: check_and_add returns what check returns on the index before the
\* call (the same map, or the same panic), whether or not it inserts.
C2_ReturnsPreInsertCheck ==
    \A new_id \in Ids, data \in Signatures, threshold \in Thresholds,
       add_if_dup \in BOOLEAN :
        {[panicked |-> o.panicked, map |-> o.map] :
            o \in check_and_add(lsh, new_id, data, threshold, add_if_dup)}
        = check(lsh, data, threshold)

\* A forced insert of a second copy of a signature returned the first copy
\* only: both records are stored and equal, the map names the first alone.
C2_Witness ==
    /\ ret.op = "check_and_add" /\ ~ret.panicked
    /\ length(lsh) = 2 /\ DistinctIds(lsh)
    /\ lsh.hashes[1] = lsh.hashes[2] /\ Len(lsh.hashes[1]) >= 1
    /\ DOMAIN ret.out = {lsh.ids[1]}

\* The index after one record (new_id, data) is appended, stated on the
\* observable corpus and on the two indexes.
Appended(self, after, new_id, data) ==
    /\ keys(after) = Append(keys(self), new_id)
    /\ values(after) = Append(values(self), data)
    /\ length(after) = length(self) + 1
    /\ after.id_map = Put(self.id_map, new_id, length(self))
    /\ DOMAIN after.candidates = DOMAIN self.candidates \cup SlotValues(data_bytes(data))
    /\ \A b \in DOMAIN after.candidates :
          after.candidates[b] =
             (IF b \in DOMAIN self.candidates THEN self.candidates[b] ELSE {})
             \cup (IF b \in SlotValues(data_bytes(data)) THEN {length(self)} ELSE {})

\* C3: check_and_add appends the record (and updates both indexes) if and
\* only if add_if_dup is true or the pre-insert check returned the empty map;
\* otherwise the index is unchanged.
C3_InsertIffEmptyOrForced ==
    \A new_id \in Ids, data \in Signatures, threshold \in Thresholds,
       add_if_dup \in BOOLEAN :
        \A o \in check_and_add(lsh, new_id, data, threshold, add_if_dup) :
            IF add_if_dup \/ (~o.panicked /\ DOMAIN o.map = {})
            THEN Appended(lsh, o.self, new_id, data)
            ELSE o.self = lsh

\* C4 as claimed: with stored signatures of length k and distinct ids, a record
\* agreeing with the query in t of the k positions, t in 0..k, is returned if
\* and only if t / k >= threshold.
C4_ReturnedIffAtLeastThreshold ==
    \A query \in Signatures, threshold \in Thresholds :
        (Len(query) >= 1 /\ UniformLen(lsh, Len(query)) /\ DistinctIds(lsh))
        => \A o \in check(lsh, query, threshold) : \A p \in 1..length(lsh) :
              (keys(lsh)[p] \in DOMAIN o.map)
              <=> AtLeast(Agree(values(lsh)[p], query), Len(query), threshold)

\* C4 as amended: the same for t in 1..k; a record agreeing in no position is
\* returned only if it shares a slot value with the query at another position.
C4_ReturnedIffAtLeastThresholdFromOne ==
    \A query \in Signatures, threshold \in Thresholds :
        (Len(query) >= 1 /\ UniformLen(lsh, Len(query)) /\ DistinctIds(lsh))
        => \A o \in check(lsh, query, threshold) : \A p \in 1..length(lsh) :
              LET t == Agree(values(lsh)[p], query)
              IN  /\ ~o.panicked
                  /\ t >= 1 =>
                       ((keys(lsh)[p] \in DOMAIN o.map)
                        <=> AtLeast(t, Len(query), threshold))
                  /\ (t = 0 /\ keys(lsh)[p] \in DOMAIN o.map) =>
                       SlotValues(values(lsh)[p]) \cap SlotValues(query) # {}

\* A check returned the first of two records with similarity t / k = 1/2 and
\* not the second, which shares a slot value with the query: the threshold
\* was 1/2 exactly (at 0 both are returned, just above 1/2 neither).
C4_Witness ==
    /\ ret.op = "check" /\ ~ret.panicked
    /\ length(lsh) = 2 /\ UniformLen(lsh, 2) /\ DistinctIds(lsh)
    /\ ret.out = (lsh.ids[1] :> Frac(1, 2))
    /\ Agree(values(lsh)[1], values(lsh)[2]) = 1

\* threshold <= 1.0
AtMostOne(threshold) == AtLeast(1, 1, threshold)

\* The two calls of C5 from the empty index, for the signatures in sigs: the
\* first returns the empty map and stores the record, the second returns a
\* map that holds the first id with similarity 1.0.
TwiceFromEmpty(sigs) ==
    /\ length(lsh) = 0 =>
          \A idA \in Ids, sig \in sigs, threshold \in Thresholds :
             AtMostOne(threshold) =>
                \A o \in check_and_add(lsh, idA, sig, threshold, FALSE) :
                   /\ ~o.panicked /\ DOMAIN o.map = {}
                   /\ keys(o.self) = <<idA>> /\ values(o.self) = <<sig>>
    /\ (length(lsh) = 1 /\ values(lsh)[1] \in sigs) =>
          \A idB \in Ids, threshold \in Thresholds :
             AtMostOne(threshold) =>
                \A o \in check_and_add(lsh, idB, values(lsh)[1], threshold, FALSE) :
                   /\ ~o.panicked
                   /\ keys(lsh)[1] \in DOMAIN o.map
                   /\ o.map[keys(lsh)[1]] = One

\* C5 as claimed: for every signature, the empty one included.
C5_SecondCallSeesFirst == TwiceFromEmpty(Signatures)

\* C5 as amended: for every signature of length k >= 1.
C5_SecondCallSeesFirstNonEmpty == TwiceFromEmpty({sig \in Signatures : Len(sig) >= 1})

\* The second of the two calls has returned the first id with similarity 1.0
\* and stored nothing.
C5_Witness ==
    /\ ret.op = "check_and_add" /\ ~ret.panicked
    /\ length(lsh) = 1 /\ Len(values(lsh)[1]) = 2
    /\ ret.out = (keys(lsh)[1] :> One)

HalfThreshold == Frac(1, 2)

\* C6 as claimed: in every reachable state, for every stored record id1,
\* check_and_add(id2, id1's signature, 0.5, false) returns {id1: 1.0} and
\* leaves the index unchanged.
C6_DuplicateNotInserted ==
    \A p \in 1..length(lsh), id2 \in Ids :
        \A o \in check_and_add(lsh, id2, values(lsh)[p], HalfThreshold, FALSE) :
            /\ ~o.panicked
            /\ o.map = (keys(lsh)[p] :> One)
            /\ o.self = lsh

\* C6 as amended: when the ids are distinct and every stored signature has
\* the length k >= 1 of id1's, the call returns a map that holds id1 with 1.0,
\* which is exactly {id1: 1.0} when no other record agrees with the signature
\* in at least half of the positions, and leaves the index unchanged.
C6_DuplicateNotInsertedUniform ==
    \A p \in 1..length(lsh), id2 \in Ids :
        LET sig == values(lsh)[p]
        IN  (Len(sig) >= 1 /\ UniformLen(lsh, Len(sig)) /\ DistinctIds(lsh))
            => \A o \in check_and_add(lsh, id2, sig, HalfThreshold, FALSE) :
                  /\ ~o.panicked
                  /\ keys(lsh)[p] \in DOMAIN o.map
                  /\ o.map[keys(lsh)[p]] = One
                  /\ (\A q \in 1..length(lsh) :
                         q # p => 2 * Agree(values(lsh)[q], sig) < Len(sig))
                     => o.map = (keys(lsh)[p] :> One)
                  /\ o.self = lsh
                  /\ length(o.self) = length(lsh)
                  /\ keys(o.self) = keys(lsh)
                  /\ values(o.self) = values(lsh)

\* A duplicate of the first of two stored records was offered without
\* add_if_dup: the map names the first record alone and nothing was stored.
C6_Witness ==
    /\ ret.op = "check_and_add" /\ ~ret.panicked
    /\ length(lsh) = 2 /\ UniformLen(lsh, 2) /\ DistinctIds(lsh)
    /\ Agree(values(lsh)[1], values(lsh)[2]) = 0
    /\ ret.out = (keys(lsh)[1] :> One)

\* C7: no call of check, check_and_add, keys, values or length fails.
C7_NoCallFails == ~ret.panicked

---------------------------------------------------------------------------
(* Claims about the facade, checked under SpecFacade *)

\* A Sketcher of the same configuration, freshly constructed.
Fresh(sketcher) ==
    [sketcher EXCEPT !.minhash = SuperMinHash_new(Len(sketcher.minhash.hsketch))]

\* C8: the facade behaves as the standalone Sketcher and Candidate Index run
\* side by side: it holds the same corpus, every call can return exactly what
\* check_and_add (add) or check (not add) of the standalone index returns on
\* sketch_and_finalize(text) and leaves the same corpus, and a call with
\* add = false leaves keys(), values() and length() unchanged.
C8_FacadeIsSketcherPlusIndex ==
    /\ facade.lsh = lsh
    /\ \A new_id \in Ids, data \in Texts, threshold \in FacadeThresholds,
          add \in BOOLEAN, add_if_dup \in BOOLEAN :
          LET F == Facade_check_and_add(facade, new_id, data, threshold, add, add_if_dup)
              S == Standalone(hasher, lsh, new_id, data, threshold, add, add_if_dup)
          IN  /\ {[lsh |-> f.self.lsh, panicked |-> f.panicked, map |-> f.map] : f \in F}
                 = {[lsh |-> s.lsh, panicked |-> s.panicked, map |-> s.map] : s \in S}
              /\ ~add => \A f \in F :
                    /\ Facade_keys(f.self) = Facade_keys(facade)
                    /\ Facade_values(f.self) = Facade_values(facade)
                    /\ Facade_length(f.self) = Facade_length(facade)

\* A facade call found a stored document and the facade holds two documents
\* with different signatures.
C8_Witness ==
    /\ ret.op = "check_and_add" /\ ~ret.panicked
    /\ Facade_length(facade) = 2
    /\ Facade_values(facade)[1] # Facade_values(facade)[2]
    /\ DOMAIN ret.out # {}

\* C9: after every facade call the facade's accumulator is empty, so the
\* signature the next call computes for a text is the one a freshly
\* constructed Sketcher of the same configuration computes.
C9_FacadeAccumulatorEmpty ==
    /\ facade.minhasher = Fresh(facade.minhasher)
    /\ \A data \in Texts :
          sketch_and_finalize(facade.minhasher, data).out
          = sketch_and_finalize(Fresh(facade.minhasher), data).out

\* A facade call has returned an empty map while a document is stored (the
\* text was sketched and did not match), and the accumulator is empty.
C9_Witness ==
    /\ ret.op = "check_and_add" /\ ~ret.panicked
    /\ Facade_length(facade) >= 1
    /\ DOMAIN ret.out = {}
    /\ facade.minhasher.minhash.hsketch = [j \in 1..Len(facade.minhasher.minhash.hsketch) |-> Large]

---------------------------------------------------------------------------
(* Claims about the Sketcher, checked under SpecSketcher *)

\* C10: after finalize (alone or inside sketch_and_finalize) the accumulator
\* equals a freshly constructed one, so a text sketched and finalized next
\* gets the signature a new Sketcher of the same configuration gives it.
C10_FinalizeResets ==
    ret.op \in {"finalize", "sketch_and_finalize"} =>
        /\ hasher = Fresh(hasher)
        /\ \A B \in SketcherTexts :
              sketch_and_finalize(hasher, B).out
              = sketch_and_finalize(Fresh(hasher), B).out

\* finalize has returned the signature of a sketched text: some slot is below
\* the value of an untouched slot.
C10_Witness ==
    /\ ret.op = "finalize"
    /\ \E j \in 1..Len(ret.out) : ret.out[j] < Large
    /\ hasher = Fresh(hasher)

---------------------------------------------------------------------------
(* Claims about construction and errors, checked under SpecFacade *)

IsErr(r) == "err" \in DOMAIN r

\* Sizes and n-gram lengths handed to the constructors.
ArgSizes == {0, 1, 2, 3}

\* C11: constructing a Sketcher or a facade with size = 0 or n_gram = 0
\* returns an invalid-argument error and no object; with size >= 1 and
\* n_gram >= 1 it returns the object; and no operation other than a
\* constructor returns an error.
C11_OnlyConstructionErrs ==
    /\ ret.op = "new" =>
       \A size \in ArgSizes, n_gram \in ArgSizes, lc \in BOOLEAN, un \in BOOLEAN,
          zh \in BOOLEAN, pn \in BOOLEAN :
          LET h == SuperMinHasher_new(size, n_gram, lc, un, zh, pn)
              f == SuperMinHasherLSH_new(size, n_gram, lc, un, zh, pn)
          IN  IF size = 0 \/ n_gram = 0
              THEN /\ ~h.ok /\ DOMAIN h = {"ok", "err"}
                   /\ ~f.ok /\ DOMAIN f = {"ok", "err"}
              ELSE /\ h.ok /\ DOMAIN h = {"ok", "value"}
                   /\ Len(h.value.minhash.hsketch) = size /\ h.value.n_gram = n_gram
                   /\ f.ok /\ DOMAIN f = {"ok", "value"}
                   /\ f.value.minhasher = h.value /\ f.value.lsh = LSH_new
    /\ IsErr(ret) => ret.op = "new"
    /\ ~IsErr(finalize(hasher))
    /\ \A data \in Texts :
          LET sf == sketch_and_finalize(hasher, data)
          IN  /\ ~IsErr(sketch(hasher, data)) /\ ~IsErr(sf)
              /\ \A threshold \in FacadeThresholds :
                    /\ \A o \in check(lsh, sf.out, threshold) : ~IsErr(o)
                    /\ \A new_id \in Ids, add_if_dup \in BOOLEAN :
                          /\ \A o \in check_and_add(lsh, new_id, sf.out, threshold,
                                                    add_if_dup) : ~IsErr(o)
                          /\ \A add \in BOOLEAN :
                                \A o \in Facade_check_and_add(facade, new_id, data,
                                                             threshold, add, add_if_dup) :
                                   ~IsErr(o)

\* A construction with n_gram = 0 has returned the error and the caller
\* holds the unigram facade it had: nothing was constructed.
C11_Witness ==
    /\ IsErr(ret) /\ ret.op = "new"
    /\ ret.err = "n_gram must be greater than 0"
    /\ facade.minhasher.n_gram = 1 /\ facade.lsh = LSH_new

---------------------------------------------------------------------------
(* Claims about the corpus over time, checked under Spec *)

IsPrefix(s, t) == Len(s) <= Len(t) /\ SubSeq(t, 1, Len(s)) = s

\* Every bucket membership of `before` is a membership of `after`.
BucketsKept(before, after) ==
    \A b \in DOMAIN before.candidates :
        b \in DOMAIN after.candidates /\ before.candidates[b] \subseteq after.candidates[b]

\* C12: across every step length() does not decrease, keys() and values()
\* before the step are prefixes of keys() and values() after it, and no
\* bucket membership is removed; a step that changes the index is a
\* check_and_add that returned and appended exactly one record.
C12_AppendOnly ==
    [][/\ length(lsh') >= length(lsh)
       /\ IsPrefix(keys(lsh), keys(lsh'))
       /\ IsPrefix(values(lsh), values(lsh'))
       /\ BucketsKept(lsh, lsh')
       /\ lsh' # lsh =>
             /\ ret'.op = "check_and_add" /\ ~ret'.panicked
             /\ \E new_id \in Ids, data \in Signatures :
                   Appended(lsh, lsh', new_id, data)]_vars

\* A check_and_add returned the empty map, so it stored its record: a second
\* record, of another signature, that shares a slot value with the first.
C12_Witness ==
    /\ ret.op = "check_and_add" /\ ~ret.panicked /\ DOMAIN ret.out = {}
    /\ length(lsh) = 2 /\ UniformLen(lsh, 2)
    /\ SlotValues(values(lsh)[1]) \cap SlotValues(values(lsh)[2]) # {}

\* The call inserts: check returned, with the empty map or with add_if_dup.
Inserts(o, add_if_dup) == ~o.panicked /\ (DOMAIN o.map = {} \/ add_if_dup)

\* C13: keys() and values() are the log of the successful inserts: empty
\* after construction, and every check_and_add that inserts (new_id, data)
\* appends new_id to keys() and the very bit patterns of data to values(),
\* while every call that does not insert leaves both as they were; length()
\* is the length of both lists.
C13_CorpusIsInsertLog ==
    /\ keys(LSH_new) = <<>> /\ values(LSH_new) = <<>> /\ length(LSH_new) = 0
    /\ length(lsh) = Len(keys(lsh)) /\ length(lsh) = Len(values(lsh))
    /\ ret.op = "keys" => ret.out = keys(lsh)
    /\ ret.op = "values" => ret.out = values(lsh)
    /\ ret.op = "length" => ret.out = Len(keys(lsh)) /\ ret.out = Len(values(lsh))
    /\ \A new_id \in Ids, data \in Signatures, threshold \in Thresholds,
          add_if_dup \in BOOLEAN :
          \A o \in check_and_add(lsh, new_id, data, threshold, add_if_dup) :
             IF Inserts(o, add_if_dup)
             THEN /\ keys(o.self) = Append(keys(lsh), new_id)
                  /\ values(o.self) = Append(values(lsh), data)
                  /\ length(o.self) = length(lsh) + 1
             ELSE /\ keys(o.self) = keys(lsh)
                  /\ values(o.self) = values(lsh)
                  /\ length(o.self) = length(lsh)

\* values() has returned the two signatures [0.0, 1.0] and [1.0, 0.0] stored
\* under "b" and "a", in the order of their insertion.
C13_Witness ==
    /\ ret.op = "values"
    /\ ret.out = <<<<0, 1065353216>>, <<1065353216, 0>>>>
    /\ keys(lsh) = <<"b", "a">>

\* C14: on a freshly constructed index check returns the empty map for every
\* signature and every threshold, keys() and values() are empty and length()
\* is 0; the index is in that state after construction and until the first
\* insert.
C14_FreshIndexEmpty ==
    /\ \A data \in Signatures, threshold \in Thresholds :
          check(LSH_new, data, threshold) = {[panicked |-> FALSE, map |-> <<>>]}
    /\ keys(LSH_new) = <<>> /\ values(LSH_new) = <<>> /\ length(LSH_new) = 0
    /\ (ret.op = "new" \/ length(lsh) = 0) => lsh = LSH_new
    /\ lsh = LSH_new =>
          /\ ret.op = "check" => (~ret.panicked /\ DOMAIN ret.out = {})
          /\ ret.op \in {"keys", "values"} => ret.out = <<>>
          /\ ret.op = "length" => ret.out = 0

\* check has returned the empty map on the index as constructed.
C14_Witness ==
    /\ ret.op = "check" /\ ~ret.panicked /\ DOMAIN ret.out = {}
    /\ lsh.ids = <<>> /\ lsh.hashes = <<>> /\ DOMAIN lsh.candidates = {}

\* C15: in every reachable state all stored signatures have one length.
C15_OneSignatureLength ==
    \A p, q \in 1..Len(values(lsh)) : Len(values(lsh)[p]) = Len(values(lsh)[q])

\* The bucket of slot value v, empty when v has none.
Bucket(self, v) == IF v \in DOMAIN self.candidates THEN self.candidates[v] ELSE {}

\* C16: for every stored record at corpus position p and every slot value v
\* anywhere in its signature, p is a member of the bucket of v.
C16_EverySlotRegistered ==
    \A p \in 0..(Len(lsh.hashes) - 1) :
        \A i \in 1..Len(lsh.hashes[p + 1]) :
            p \in Bucket(lsh, lsh.hashes[p + 1][i])

\* The second record is [0.0, 1.0]: it is in the bucket of 0.0 together with
\* the first record and in the bucket of 1.0 alone.
C16_Witness ==
    /\ length(lsh) = 2
    /\ values(lsh)[2] = <<0, 1065353216>>
    /\ Bucket(lsh, to_le_bytes(0)) = {0, 1}
    /\ Bucket(lsh, to_le_bytes(1065353216)) = {1}

\* C19: once a record (id, sig) with k >= 1 is stored then, the ids being
\* distinct, in every later state every check(sig, threshold) with
\* threshold <= 1.0 returns a map that holds id with similarity 1.0.
C19_StoredRecordIsFound ==
    DistinctIds(lsh) =>
        \A p \in 1..length(lsh), threshold \in Thresholds :
            (Len(values(lsh)[p]) >= 1 /\ AtMostOne(threshold))
            => \A o \in check(lsh, values(lsh)[p], threshold) :
                  /\ ~o.panicked
                  /\ keys(lsh)[p] \in DOMAIN o.map
                  /\ o.map[keys(lsh)[p]] = One

\* C20: every position p in the bucket of a value v is below length(), the
\* signature stored at p holds v in some slot, and the id list and the
\* signature list have one length; so every candidate check draws from the
\* buckets has a signature and an id.
C20_BucketsSound ==
    /\ Len(lsh.ids) = Len(lsh.hashes)
    /\ \A v \in DOMAIN lsh.candidates : \A p \in lsh.candidates[v] :
          /\ p \in 0..(length(lsh) - 1)
          /\ v \in SlotValues(lsh.hashes[p + 1])
    /\ \A data \in Signatures : \A p \in bucket_union(lsh, data_bytes(data)) :
          p < Len(lsh.hashes) /\ p < Len(lsh.ids)

\* Two records that share no slot value: the bucket of 0.0 holds the first
\* position alone and the bucket of 1.0 the second alone.
C20_Witness ==
    /\ length(lsh) = 2
    /\ DOMAIN lsh.candidates = {to_le_bytes(0), to_le_bytes(1065353216)}
    /\ lsh.candidates[to_le_bytes(0)] = {0}
    /\ lsh.candidates[to_le_bytes(1065353216)] = {1}

---------------------------------------------------------------------------
(* Specification of a Candidate Index used for deduplication: the caller
   fixes one threshold > 0 and one signature length k >= 1 and makes every
   insert by check_and_add with that threshold and add_if_dup = false. *)

DedupThresholds == {t \in Thresholds : ~t.nan /\ t.num > 0}

InitDedup ==
    /\ lsh = LSH_new
    /\ hasher = Unused
    /\ facade = Unused
    /\ ret = Returned("new", FALSE, <<>>)
    /\ \E threshold \in DedupThresholds, k \in SigLens \ {0} :
          caller = [fixed |-> TRUE, threshold |-> threshold, k |-> k]

DedupCheckAndAdd(new_id, data) ==
    /\ Len(data) = caller.k
    /\ CheckAndAdd(new_id, data, caller.threshold, FALSE)

NextDedup ==
    \/ \E new_id \in Ids, data \in Signatures : DedupCheckAndAdd(new_id, data)
    \/ \E data \in Signatures, threshold \in Thresholds : Check(data, threshold)
    \/ Keys
    \/ Values
    \/ Length

SpecDedup == InitDedup /\ [][NextDedup]_vars

\* C18: when every insert is made by check_and_add with add_if_dup = false,
\* one threshold > 0 and signatures of one length k >= 1, no two distinct
\* stored records agree in a fraction >= threshold of the k positions.
C18_NoTwoNearDuplicates ==
    /\ UniformLen(lsh, caller.k)
    /\ \A p, q \in 1..length(lsh) :
          p # q => ~AtLeast(Agree(values(lsh)[p], values(lsh)[q]), caller.k,
                            caller.threshold)

\* At threshold 0.5 a signature agreeing with each of the two stored records
\* in one of the two positions was offered and not stored; the two stored
\* records agree in no position.
C18_Witness ==
    /\ ret.op = "check_and_add" /\ ~ret.panicked
    /\ caller.k = 2 /\ caller.threshold = Frac(1, 2)
    /\ length(lsh) = 2 /\ Agree(values(lsh)[1], values(lsh)[2]) = 0
    /\ DOMAIN ret.out = {keys(lsh)[1], keys(lsh)[2]}
    /\ \A id \in DOMAIN ret.out : ret.out[id] = Frac(1, 2)

---------------------------------------------------------------------------
(* Claims about shingling, checked under SpecSketcher *)

\* The shingles of a character sequence: its windows of n_gram characters
\* from left to right, or the whole sequence when it is shorter than n_gram.
ShinglesOf(cs, n_gram) ==
    IF Len(cs) >= n_gram
    THEN [w \in 1..(Len(cs) - n_gram + 1) |-> SubSeq(cs, w, w + n_gram - 1)]
    ELSE <<cs>>

\* The accumulator after the elements are inserted one by one, first to last.
RECURSIVE AbsorbAll(_, _)
AbsorbAll(minhash, elements) ==
    IF elements = <<>> THEN minhash
    ELSE AbsorbAll(SuperMinHash_sketch(minhash, Head(elements)), Tail(elements))

\* C17: sketch(text) inserts into the accumulator, from left to right,
\* exactly the shingles of the preprocessed text: its len - n_gram + 1 windows
\* when it has at least n_gram characters, the whole sequence as one shingle
\* otherwise (the empty text included); it inserts them into the accumulator
\* as it stands, without resetting it, and changes nothing else.
C17_SketchInsertsShingles ==
    \A s \in SketcherTexts :
        LET cs == preprocess(hasher, s)
            calls == sketch_calls(hasher, s)
        IN  /\ calls = ShinglesOf(cs, hasher.n_gram)
            /\ Len(cs) >= hasher.n_gram => Len(calls) = Len(cs) - hasher.n_gram + 1
            /\ Len(cs) < hasher.n_gram => calls = <<cs>>
            /\ sketch(hasher, s)
                 = [hasher EXCEPT !.minhash = AbsorbAll(hasher.minhash, calls)]
            /\ \A j \in 1..Len(hasher.minhash.hsketch) :
                  sketch(hasher, s).minhash.hsketch[j] <= hasher.minhash.hsketch[j]

\* sketch has inserted the shingles of a text of several shingles into an
\* empty accumulator, and no single one of them accounts for the result.
C17_Witness ==
    /\ ret.op = "sketch"
    /\ \E s \in SketcherTexts :
          LET calls == sketch_calls(Fresh(hasher), s)
          IN  /\ Len(calls) >= 2
              /\ hasher.minhash = AbsorbAll(Fresh(hasher).minhash, calls)
              /\ \A c \in 1..Len(calls) :
                    hasher.minhash # AbsorbAll(Fresh(hasher).minhash, <<calls[c]>>)

====
